---- MODULE Spec2Model ----
(***************************************************************************)
(* A model of nikochiko/dns-server: the DNS wire codec (header, domain     *)
(* name, question, resource record), the record lookup and the UDP packet  *)
(* handler of package server.                                              *)
(*                                                                         *)
(* Octets are naturals 0..255, strings and byte slices are sequences of    *)
(* octets.  A Go call that can panic returns a record with a "panic" flag. *)
(***************************************************************************)
EXTENDS Naturals, Sequences, FiniteSets, TLC

VARIABLES
    records,   \* srv.records, the record table
    pc,        \* pc[w]: "idle", "running", "done" or "panic": the goroutine of worker w
    input,     \* input[w]: the datagram input[:rlen] handed to worker w
    outcome,   \* outcome[w]: what handleUDPPacket did with input[w]
    arg,       \* the arguments of the codec call under check
    ret,       \* what the call returned
    back       \* what the inverse call returned (round trips)

vars == <<records, pc, input, outcome, arg, ret, back>>

None == [kind |-> "none"]

----------------------------------------------------------------------------
(* Octets, 16-bit words and slices *)

RECURSIVE BitAnd(_, _)
BitAnd(a, b) ==
    IF a = 0 \/ b = 0 THEN 0
    ELSE (a % 2) * (b % 2) + 2 * BitAnd(a \div 2, b \div 2)

RECURSIVE BitOr(_, _)
BitOr(a, b) ==
    IF a = 0 THEN b
    ELSE IF b = 0 THEN a
    ELSE (IF (a % 2) + (b % 2) > 0 THEN 1 ELSE 0) + 2 * BitOr(a \div 2, b \div 2)

\* x << n on uint16
Shl16(x, n) == (x * (2 ^ n)) % 65536

\* binary.BigEndian.Uint16(b) for a slice b of at least two octets
Uint16(b) == b[1] * 256 + b[2]

\* the octets binary.BigEndian.PutUint16 stores
PutUint16(v) == <<(v \div 256) % 256, v % 256>>

\* the octets binary.BigEndian.PutUint32 stores
PutUint32(v) ==
    <<(v \div 16777216) % 256, (v \div 65536) % 256, (v \div 256) % 256, v % 256>>

\* buf[off:] of a slice whose length is its capacity
From(buf, off) == SubSeq(buf, off + 1, Len(buf))

\* the number of octets copy(buf[off:], src) reports
Copied(buf, off, src) ==
    IF Len(buf) - off < Len(src) THEN Len(buf) - off ELSE Len(src)

\* copy(buf[off:], src): copies min(len(buf)-off, len(src)) octets
Copy(buf, off, src) ==
    SubSeq(buf, 1, off) \o SubSeq(src, 1, Copied(buf, off, src))
    \o SubSeq(buf, off + Copied(buf, off, src) + 1, Len(buf))

\* make([]byte, n)
Make(n) == SubSeq([i \in 1..n |-> 0], 1, n)

----------------------------------------------------------------------------
(* The header *)

QRQuery == FALSE
QRResponse == TRUE

QueryOp == 0
IQueryOp == 1
StatusOp == 2

NoError == 0
FormatError == 1
ServerFailure == 2
NameError == 3
NotImplemented == 4
Refused == 5

opCodeMap == {QueryOp, IQueryOp, StatusOp}

responseCodeMap == {NoError, FormatError, ServerFailure, NameError, NotImplemented, Refused}

\* DNSHeader{}
ZeroHeader ==
    [ID |-> 0, Type |-> QRQuery, OpCode |-> QueryOp,
     IsAuthoritative |-> FALSE, IsTruncated |-> FALSE,
     RecursionDesired |-> FALSE, RecursionAvailable |-> FALSE,
     ResponseCode |-> NoError,
     QuestionsCount |-> 0, AnswersCount |-> 0,
     NameserversCount |-> 0, AdditionalRecordsCount |-> 0]

parseMsgType(headerBits) == BitAnd(headerBits, Shl16(1, 15)) # 0

\* the opcode field; GetOpCodeFromInt fails when it is not in opCodeMap
parseOpCode(headerBits) ==
    BitAnd(headerBits,
           BitOr(BitOr(Shl16(1, 14), Shl16(1, 13)), BitOr(Shl16(1, 12), Shl16(1, 11))))
        \div (2 ^ 11)

parseAA(headerBits) == BitAnd(headerBits, Shl16(1, 10)) # 0

parseTC(headerBits) == BitAnd(headerBits, Shl16(1, 9)) # 0

parseRD(headerBits) == BitAnd(headerBits, Shl16(1, 8)) # 0

parseRA(headerBits) == BitAnd(headerBits, Shl16(1, 7)) # 0

\* the rcode field; GetResponseCodeFromInt fails when it is not in responseCodeMap
parseRCode(headerBits) ==
    BitAnd(headerBits, BitOr(BitOr(Shl16(1, 3), Shl16(1, 2)), BitOr(Shl16(1, 1), 1)))

\* a map lookup that misses yields the zero value
Lookup(map, code) == IF code \in map THEN code ELSE 0

\* the fields ReadFrom sets up to the first error test
flagFields(h, id, headerBits) ==
    [h EXCEPT !.ID = id, !.Type = parseMsgType(headerBits),
              !.OpCode = Lookup(opCodeMap, parseOpCode(headerBits))]

\* the fields ReadFrom sets from there to the second error test
flagFields2(h, headerBits) ==
    [h EXCEPT !.IsAuthoritative = parseAA(headerBits),
              !.IsTruncated = parseTC(headerBits),
              !.RecursionDesired = parseRD(headerBits),
              !.RecursionAvailable = parseRA(headerBits),
              !.ResponseCode = Lookup(responseCodeMap, parseRCode(headerBits))]

\* a variant that does not test the error of parseRCode
readFromBitsLax(h, buf, headerBits) ==
    IF parseOpCode(headerBits) \notin opCodeMap
    THEN [h |-> flagFields(h, Uint16(buf), headerBits),
          err |-> "invalid opcode", panic |-> FALSE]
    ELSE IF Len(buf) < 12
    THEN [h |-> flagFields2(flagFields(h, Uint16(buf), headerBits), headerBits),
          err |-> "", panic |-> TRUE]
    ELSE [h |-> [flagFields2(flagFields(h, Uint16(buf), headerBits), headerBits)
                    EXCEPT !.QuestionsCount = Uint16(From(buf, 4)),
                           !.AnswersCount = Uint16(From(buf, 6)),
                           !.NameserversCount = Uint16(From(buf, 8)),
                           !.AdditionalRecordsCount = Uint16(From(buf, 10))],
          err |-> "", panic |-> FALSE]

\* ReadFrom once the flags word is read
readFromBits(h, buf, headerBits) ==
    IF parseOpCode(headerBits) \notin opCodeMap
    THEN [h |-> flagFields(h, Uint16(buf), headerBits),
          err |-> "invalid opcode", panic |-> FALSE]
    ELSE IF parseRCode(headerBits) \notin responseCodeMap
    THEN [h |-> flagFields2(flagFields(h, Uint16(buf), headerBits), headerBits),
          err |-> "invalid response code", panic |-> FALSE]
    ELSE IF Len(buf) < 12
    THEN [h |-> flagFields2(flagFields(h, Uint16(buf), headerBits), headerBits),
          err |-> "", panic |-> TRUE]
    ELSE [h |-> [flagFields2(flagFields(h, Uint16(buf), headerBits), headerBits)
                    EXCEPT !.QuestionsCount = Uint16(From(buf, 4)),
                           !.AnswersCount = Uint16(From(buf, 6)),
                           !.NameserversCount = Uint16(From(buf, 8)),
                           !.AdditionalRecordsCount = Uint16(From(buf, 10))],
          err |-> "", panic |-> FALSE]

\* h.ReadFrom(buf): [h, err, panic].  A read past len(buf) panics; an error
\* returns with the fields read so far.
ReadFrom(h, buf) ==
    IF Len(buf) < 4 THEN [h |-> h, err |-> "", panic |-> TRUE]
    ELSE readFromBits(h, buf, Uint16(From(buf, 2)))

\* a variant that stores recursion-desired at bit 9
encodeHeaderBitsBad(h) ==
    BitOr(BitOr(BitOr(BitOr(BitOr(BitOr(
        IF h.Type = QRResponse THEN Shl16(1, 15) ELSE 0,
        Shl16(h.OpCode, 11)),
        IF h.IsAuthoritative THEN Shl16(1, 10) ELSE 0),
        IF h.IsTruncated THEN Shl16(1, 9) ELSE 0),
        IF h.RecursionDesired THEN Shl16(1, 9) ELSE 0),
        IF h.RecursionAvailable THEN Shl16(1, 7) ELSE 0),
        BitAnd(h.ResponseCode, 15))

\* the 16-bit flags word h.encodeHeaderBits stores: each field is or-ed in
encodeHeaderBits(h) ==
    BitOr(BitOr(BitOr(BitOr(BitOr(BitOr(
        IF h.Type = QRResponse THEN Shl16(1, 15) ELSE 0,
        Shl16(h.OpCode, 11)),
        IF h.IsAuthoritative THEN Shl16(1, 10) ELSE 0),
        IF h.IsTruncated THEN Shl16(1, 9) ELSE 0),
        IF h.RecursionDesired THEN Shl16(1, 8) ELSE 0),
        IF h.RecursionAvailable THEN Shl16(1, 7) ELSE 0),
        BitAnd(h.ResponseCode,
               BitOr(BitOr(Shl16(1, 3), Shl16(1, 2)), BitOr(Shl16(1, 1), 1))))

\* the six stores of h.Encode into a buffer that holds them
headerOctets(h, buf) ==
    Copy(Copy(Copy(Copy(Copy(Copy(buf,
        0, PutUint16(h.ID)),
        2, PutUint16(encodeHeaderBits(h))),
        4, PutUint16(h.QuestionsCount)),
        6, PutUint16(h.AnswersCount)),
        8, PutUint16(h.NameserversCount)),
        10, PutUint16(h.AdditionalRecordsCount))

\* a variant that stores the answer count before the question count
HeaderEncodeBad(h, buf) ==
    IF Len(buf) < 12 THEN [n |-> 0, buf |-> buf, panic |-> TRUE]
    ELSE [n |-> 12,
          buf |-> Copy(Copy(headerOctets(h, buf), 4, PutUint16(h.AnswersCount)),
                       6, PutUint16(h.QuestionsCount)),
          panic |-> FALSE]

\* h.Encode(buf): [n, buf, panic].  It returns 12 and no error; slicing a
\* buffer of fewer than 12 octets panics.
HeaderEncode(h, buf) ==
    IF Len(buf) < 12 THEN [n |-> 0, buf |-> buf, panic |-> TRUE]
    ELSE [n |-> 12, buf |-> headerOctets(h, buf), panic |-> FALSE]

----------------------------------------------------------------------------
(* Domain names *)

Dot == 46

\* strings.Split(name, "."): the labels of name, at least one
RECURSIVE Split(_)
Split(name) ==
    IF \A i \in 1..Len(name) : name[i] # Dot THEN <<name>>
    ELSE LET k == CHOOSE i \in 1..Len(name) :
                      name[i] = Dot /\ \A j \in 1..(i - 1) : name[j] # Dot
         IN  <<SubSeq(name, 1, k - 1)>> \o Split(SubSeq(name, k + 1, Len(name)))

\* a variant that counts the final zero octet without storing it
RECURSIVE encodeLabelsBad(_, _, _, _)
encodeLabelsBad(buf, labels, i, written) ==
    IF i > Len(labels)
    THEN [n |-> written + 1, err |-> "", buf |-> buf]
    ELSE IF Len(labels[i]) > 63
    THEN [n |-> written, err |-> "label too long", buf |-> buf]
    ELSE encodeLabelsBad(Copy([buf EXCEPT ![written + 1] = Len(labels[i])],
                              written + 1, labels[i]),
                         labels, i + 1, written + 1 + Len(labels[i]))

\* the loop of EncodeDomainName over labels[i..], with `written` octets stored
RECURSIVE encodeLabels(_, _, _, _)
encodeLabels(buf, labels, i, written) ==
    IF i > Len(labels)
    THEN [n |-> written + 1, err |-> "", buf |-> [buf EXCEPT ![written + 1] = 0]]
    ELSE IF Len(labels[i]) > 63
    THEN [n |-> written, err |-> "label too long", buf |-> buf]
    ELSE encodeLabels(Copy([buf EXCEPT ![written + 1] = Len(labels[i])],
                           written + 1, labels[i]),
                      labels, i + 1, written + 1 + Len(labels[i]))

\* a variant that stores the first length octet before it tests the buffer
EncodeDomainNameLate(buf, name) ==
    IF Len(name) > 255 THEN [n |-> 0, err |-> "name too long", buf |-> buf]
    ELSE IF Len(buf) < Len(name) + 2
    THEN [n |-> 0, err |-> "buffer too small",
          buf |-> [buf EXCEPT ![1] = Len(Split(name)[1])]]
    ELSE encodeLabels(buf, Split(name), 1, 0)

\* EncodeDomainName(buf, name): [n, err, buf]
EncodeDomainName(buf, name) ==
    IF Len(name) > 255 THEN [n |-> 0, err |-> "name too long", buf |-> buf]
    ELSE IF Len(buf) < Len(name) + 2 THEN [n |-> 0, err |-> "buffer too small", buf |-> buf]
    ELSE encodeLabels(buf, Split(name), 1, 0)

\* the loop of DecodeDomainName: labels read from offset pos on, joined with "."
RECURSIVE decodeLabels(_, _, _, _)
decodeLabels(buf, pos, name, first) ==
    IF pos >= Len(buf) THEN [n |-> pos, name |-> name, err |-> "truncated"]
    ELSE IF buf[pos + 1] = 0 THEN [n |-> pos + 1, name |-> name, err |-> ""]
    ELSE IF pos + 1 + buf[pos + 1] > Len(buf)
    THEN [n |-> pos, name |-> name, err |-> "truncated"]
    ELSE decodeLabels(buf, pos + 1 + buf[pos + 1],
                      IF first THEN SubSeq(buf, pos + 2, pos + 1 + buf[pos + 1])
                      ELSE name \o <<Dot>> \o SubSeq(buf, pos + 2, pos + 1 + buf[pos + 1]),
                      FALSE)

\* DecodeDomainName(buf): [n, name, err]
DecodeDomainName(buf) == decodeLabels(buf, 0, <<>>, TRUE)

----------------------------------------------------------------------------
(* Types, classes, questions and resource records *)

TypeA == 1
TypeSOA == 6
ClassIN == 1

\* the codes of uintToQtypeMap
uintToQtypeMap == {1, 2, 3, 4, 5, 6, 11, 12, 13, 14, 15, 16, 255}

\* the octets of QTYPE.Value and QCLASS.Value for a code
CodeValue(code) == PutUint16(code)

\* Question.Encode and ResourceRecord.Encode after the name: the type and
\* class values are copied and counted
withCodes(e, type, class) ==
    [n |-> e.n + Copied(e.buf, e.n, CodeValue(type))
               + Copied(e.buf, e.n + Copied(e.buf, e.n, CodeValue(type)), CodeValue(class)),
     err |-> "",
     buf |-> Copy(Copy(e.buf, e.n, CodeValue(type)),
                  e.n + Copied(e.buf, e.n, CodeValue(type)), CodeValue(class))]

questionAfterName(q, e) == IF e.err # "" THEN e ELSE withCodes(e, q.Type, q.Class)

\* q.Encode(buf): [n, err, buf]
QuestionEncode(q, buf) == questionAfterName(q, EncodeDomainName(buf, q.Name))

\* the octet at offset i (from 0) of a slice inside its capacity: the receive
\* buffer is a fresh make([]byte, 512), zero past the octets received
At(b, i) == IF i < Len(b) THEN b[i + 1] ELSE 0

NoQuestion == [Name |-> <<>>, Type |-> 0, Class |-> 0]

\* ReadQuestionFrom after DecodeDomainName returned d
readQuestionAfterName(b, cap, d) ==
    IF d.err # "" THEN [n |-> d.n, q |-> NoQuestion, err |-> d.err, panic |-> FALSE]
    ELSE IF d.n + 2 > cap THEN [n |-> d.n, q |-> NoQuestion, err |-> "", panic |-> TRUE]
    ELSE IF (At(b, d.n) * 256 + At(b, d.n + 1)) \notin uintToQtypeMap
    THEN [n |-> d.n, q |-> NoQuestion, err |-> "unrecognized code", panic |-> FALSE]
    ELSE IF d.n + 4 > cap
    THEN [n |-> d.n + 2, q |-> NoQuestion, err |-> "", panic |-> TRUE]
    ELSE IF At(b, d.n + 2) * 256 + At(b, d.n + 3) # 1
    THEN [n |-> d.n + 2, q |-> NoQuestion,
          err |-> "unrecognized class code", panic |-> FALSE]
    ELSE [n |-> d.n + 4,
          q |-> [Name |-> d.name, Type |-> At(b, d.n) * 256 + At(b, d.n + 1),
                 Class |-> ClassIN],
          err |-> "", panic |-> FALSE]

\* ReadQuestionFrom(buf) for a slice of octets b and capacity cap:
\* [n, q, err, panic]
ReadQuestionFrom(b, cap) == readQuestionAfterName(b, cap, DecodeDomainName(b))

\* rr.Encode after the name, type and class: c = [n, buf]
rrAfterCodes(rr, c) ==
    IF Len(c.buf) - c.n < 6
    THEN [n |-> c.n, err |-> "", buf |-> c.buf, panic |-> TRUE]
    ELSE [n |-> c.n + 6, err |-> "",
          buf |-> Copy(Copy(Copy(c.buf, c.n, PutUint32(rr.TTL)),
                            c.n + 4, PutUint16(Len(rr.Value) % 65536)),
                       c.n + 6, rr.Value),
          panic |-> FALSE]

rrAfterName(rr, e) ==
    IF e.err # "" THEN [n |-> e.n, err |-> e.err, buf |-> e.buf, panic |-> FALSE]
    ELSE rrAfterCodes(rr, withCodes(e, rr.Type, rr.Class))

\* rr.Encode(buf): [n, err, buf, panic].  PutUint32 and PutUint16 panic on a
\* slice too short for them; the value octets are copied but not counted in n.
RREncode(rr, buf) == rrAfterName(rr, EncodeDomainName(buf, rr.Name))

----------------------------------------------------------------------------
(* The server *)

\* strings.ToLower on ASCII octets
ToLower(name) ==
    [i \in 1..Len(name) |-> IF name[i] >= 65 /\ name[i] <= 90 THEN name[i] + 32 ELSE name[i]]

\* strings.HasSuffix(s, suffix)
HasSuffix(s, suffix) ==
    Len(s) >= Len(suffix) /\ SubSeq(s, Len(s) - Len(suffix) + 1, Len(s)) = suffix

\* "kausm.in"
kausm_in == <<107, 97, 117, 115, 109, 46, 105, 110>>

\* "test.kausm.in"
test_kausm_in == <<116, 101, 115, 116, 46>> \o kausm_in

\* EncodeSOA("kausm.in", "kaustubh.kausm.in", 1, 600, 600, 600, 600)
soa ==
    LET mname == EncodeDomainName(Make(10), kausm_in)
        rname == EncodeDomainName(Make(19),
                     <<107, 97, 117, 115, 116, 117, 98, 104, 46>> \o kausm_in)
    IN  SubSeq(mname.buf, 1, mname.n) \o SubSeq(rname.buf, 1, rname.n)
        \o PutUint32(1) \o PutUint32(600) \o PutUint32(600) \o PutUint32(600)
        \o PutUint32(600)

\* the table NewDNSServer builds: record1, soaRecord
NewDNSServer ==
    << [Name |-> test_kausm_in, Type |-> TypeA, Class |-> ClassIN, TTL |-> 600,
        Value |-> <<134, 209, 148, 50>>],
       [Name |-> kausm_in, Type |-> TypeSOA, Class |-> ClassIN, TTL |-> 600,
        Value |-> soa] >>

\* srv.LookupRecords: the indexes of the matching records; the first is returned
Matches(recs, recordType, recordClass, name) ==
    {i \in 1..Len(recs) :
        /\ recs[i].Type = recordType
        /\ recs[i].Class = recordClass
        /\ ToLower(recs[i].Name) = ToLower(name)}

\* a variant whose loop keeps the last match instead of returning the first
LookupRecordsLast(recs, recordType, recordClass, name) ==
    LET m == Matches(recs, recordType, recordClass, name)
    IN  IF m = {} THEN <<>>
        ELSE <<recs[CHOOSE i \in m : \A j \in m : i >= j]>>

\* srv.LookupRecords(recordType, recordClass, name): <<r>> or <<>> for nil
LookupRecords(recs, recordType, recordClass, name) ==
    LET m == Matches(recs, recordType, recordClass, name)
    IN  IF m = {} THEN <<>>
        ELSE <<recs[CHOOSE i \in m : \A j \in m : i <= j]>>

\* srv.GetAnswers(q)
GetAnswers(recs, q) ==
    [answers |-> LookupRecords(recs, q.Type, q.Class, q.Name),
     nameservers |-> <<>>,
     additionals |-> <<>>,
     isAuthoritative |-> HasSuffix(ToLower(q.Name), kausm_in)]

\* a variant that leaves the truncated flag of the request in place
setDefaultResponseHeadersKeepTC(h) ==
    [h EXCEPT !.Type = QRResponse, !.RecursionAvailable = FALSE,
              !.IsAuthoritative = FALSE]

\* srv.setDefaultResponseHeaders(h)
setDefaultResponseHeaders(h) ==
    [h EXCEPT !.Type = QRResponse, !.RecursionAvailable = FALSE,
              !.IsTruncated = FALSE, !.IsAuthoritative = FALSE]

\* the size of the buffer RespondToUDP encodes into
OutSize == 512

\* the size of the buffer Listen receives into
InSize == 512

\* q.Encode or rr.Encode on a slice
encodeItem(kind, item, slice) ==
    IF kind = "q" THEN QuestionEncode(item, slice) @@ [panic |-> FALSE]
    ELSE RREncode(item, slice)

\* one loop of RespondToUDP over items[i..]: kind "q" for questions, "rr" for
\* records; st = [buf, bytesWritten, err, panic]
RECURSIVE encodeAll(_, _, _, _)
RECURSIVE encodeStep(_, _, _, _, _)
encodeAll(kind, items, i, st) ==
    IF st.err # "" \/ st.panic \/ i > Len(items) THEN st
    ELSE encodeStep(kind, items, i, st,
                    encodeItem(kind, items[i], From(st.buf, st.bytesWritten)))

\* the loop body once Encode returned e: return the error, or bytesWritten += n
encodeStep(kind, items, i, st, e) ==
    IF e.panic
    THEN [st EXCEPT !.buf = Copy(st.buf, st.bytesWritten, e.buf), !.panic = TRUE]
    ELSE IF e.err # ""
    THEN [st EXCEPT !.buf = Copy(st.buf, st.bytesWritten, e.buf), !.err = e.err]
    ELSE encodeAll(kind, items, i + 1,
                   [st EXCEPT !.buf = Copy(st.buf, st.bytesWritten, e.buf),
                              !.bytesWritten = st.bytesWritten + e.n])

\* the buffer after headers.Encode(buf)
respondStart(he) ==
    [buf |-> he.buf, bytesWritten |-> he.n, err |-> "", panic |-> he.panic]

\* the four loops of RespondToUDP
respondLoops(st, questions, answers, nameservers, additionalRecords) ==
    encodeAll("rr", additionalRecords, 1,
        encodeAll("rr", nameservers, 1,
            encodeAll("rr", answers, 1,
                encodeAll("q", questions, 1, st))))

\* a variant that writes the whole buffer to the connection
respondResultOld(h, s) ==
    [headers |-> h, err |-> s.err, panic |-> s.panic,
     sent |-> (s.err = "" /\ ~s.panic),
     out |-> IF s.err = "" /\ ~s.panic THEN s.buf ELSE <<>>,
     buf |-> s.buf, bytesWritten |-> s.bytesWritten]

\* conn.WriteTo(buf[:bytesWritten], returnAddr) when no Encode failed
respondResult(h, s) ==
    [headers |-> h, err |-> s.err, panic |-> s.panic,
     sent |-> (s.err = "" /\ ~s.panic),
     out |-> IF s.err = "" /\ ~s.panic THEN SubSeq(s.buf, 1, s.bytesWritten) ELSE <<>>,
     buf |-> s.buf, bytesWritten |-> s.bytesWritten]

\* RespondToUDP once the four counts are set
respondWith(h, questions, answers, nameservers, additionalRecords) ==
    respondResult(h, respondLoops(respondStart(HeaderEncode(h, Make(OutSize))),
                                  questions, answers, nameservers, additionalRecords))

\* a variant that leaves the caller's QuestionsCount in the header
setCountsOld(headers, questions, answers, nameservers, additionalRecords) ==
    [headers EXCEPT !.AnswersCount = Len(answers) % 65536,
                    !.NameserversCount = Len(nameservers) % 65536,
                    !.AdditionalRecordsCount = Len(additionalRecords) % 65536]

\* the four count assignments that open RespondToUDP
setCounts(headers, questions, answers, nameservers, additionalRecords) ==
    [headers EXCEPT !.QuestionsCount = Len(questions) % 65536,
                    !.AnswersCount = Len(answers) % 65536,
                    !.NameserversCount = Len(nameservers) % 65536,
                    !.AdditionalRecordsCount = Len(additionalRecords) % 65536]

\* srv.RespondToUDP(conn, returnAddr, headers, questions, answers, nameservers,
\* additionalRecords): the header as mutated, the error, and the datagram
\* buf[:bytesWritten] handed to conn.WriteTo when no encode failed
RespondToUDP(headers, questions, answers, nameservers, additionalRecords) ==
    respondWith(setCounts(headers, questions, answers, nameservers, additionalRecords),
                questions, answers, nameservers, additionalRecords)

\* the loop body of handleUDPPacket after GetAnswers returned g for question q
resolved(st, n, q, g) ==
    [st EXCEPT !.rlen = st.rlen + n,
               !.headers = [st.headers EXCEPT
                   !.IsAuthoritative = g.isAuthoritative,
                   !.ResponseCode = IF g.isAuthoritative /\ Len(g.answers) = 0
                                    THEN NameError ELSE st.headers.ResponseCode],
               !.questions = Append(st.questions, q),
               !.answers = st.answers \o g.answers,
               !.nameservers = st.nameservers \o g.nameservers,
               !.additionals = st.additionals \o g.additionals]

\* the question loop of handleUDPPacket from iteration qi on;
\* st = [rlen, headers, questions, answers, nameservers, additionals, err, panic]
RECURSIVE questionLoop(_, _, _, _)
RECURSIVE questionStep(_, _, _, _, _)
questionLoop(recs, buf, qi, st) ==
    IF qi >= st.headers.QuestionsCount THEN st
    ELSE IF st.rlen > Len(buf) THEN [st EXCEPT !.panic = TRUE]
    ELSE questionStep(recs, buf, qi, st,
                      ReadQuestionFrom(From(buf, st.rlen), InSize - st.rlen))

\* the loop body once ReadQuestionFrom returned r
questionStep(recs, buf, qi, st, r) ==
    IF r.panic THEN [st EXCEPT !.panic = TRUE]
    ELSE IF r.err # "" THEN [st EXCEPT !.rlen = st.rlen + r.n, !.err = r.err]
    ELSE questionLoop(recs, buf, qi + 1, resolved(st, r.n, r.q, GetAnswers(recs, r.q)))

\* what a handler did: kind "sent" (out is the datagram written), "dropped"
\* (returned without writing) or "panic" (the goroutine panicked)
Outcome(kind, req, headers, out, questions, answers) ==
    [kind |-> kind, request |-> req, headers |-> headers, out |-> out,
     questions |-> questions, answers |-> answers]

\* handleUDPPacket once RespondToUDP returned r
responded(req, r, questions, answers) ==
    Outcome(IF r.panic THEN "panic" ELSE IF r.sent THEN "sent" ELSE "dropped",
            req, r.headers, r.out, questions, answers)

\* the state of the question loop on entry
loopStart(headers) ==
    [rlen |-> 12, headers |-> headers, questions |-> <<>>, answers |-> <<>>,
     nameservers |-> <<>>, additionals |-> <<>>, err |-> "", panic |-> FALSE]

\* handleUDPPacket after the question loop ended in st
afterQuestions(req, st) ==
    IF st.panic THEN Outcome("panic", req, st.headers, <<>>, <<>>, <<>>)
    ELSE IF st.err # "" THEN Outcome("dropped", req, st.headers, <<>>, <<>>, <<>>)
    ELSE responded(req,
                   RespondToUDP(st.headers, st.questions, st.answers,
                                st.nameservers, st.additionals),
                   st.questions, st.answers)

\* handleUDPPacket after setDefaultResponseHeaders: req is the header as read,
\* headers the header with the response defaults
dispatch(recs, buf, req, headers) ==
    IF headers.Type # QRQuery \/ headers.OpCode # QueryOp
    THEN responded(req,
                   RespondToUDP([headers EXCEPT !.ResponseCode = NotImplemented,
                                                !.AnswersCount = 0],
                                <<>>, <<>>, <<>>, <<>>),
                   <<>>, <<>>)
    ELSE afterQuestions(req, questionLoop(recs, buf, 0, loopStart(headers)))

\* handleUDPPacket once headers.ReadFrom(buf) returned rd
afterRead(recs, buf, rd) ==
    IF rd.panic THEN Outcome("panic", rd.h, rd.h, <<>>, <<>>, <<>>)
    ELSE IF rd.err # "" THEN Outcome("dropped", rd.h, rd.h, <<>>, <<>>, <<>>)
    ELSE dispatch(recs, buf, rd.h, setDefaultResponseHeaders(rd.h))

\* srv.handleUDPPacket(conn, buf, returnAddr).  The response defaults, Type =
\* QRResponse among them, are set before the message type is tested.
handleUDPPacket(recs, buf) == afterRead(recs, buf, ReadFrom(ZeroHeader, buf))

----------------------------------------------------------------------------
(* The datagrams the model receives *)

\* twelve header octets as a client would send them
Hdr(id, flags, qd, an, ns, ar) ==
    PutUint16(id) \o PutUint16(flags) \o PutUint16(qd) \o PutUint16(an)
    \o PutUint16(ns) \o PutUint16(ar)

\* a name as a client encodes it: length-prefixed labels and the root label
RECURSIVE WireLabels(_)
WireLabels(labels) ==
    IF labels = <<>> THEN <<0>>
    ELSE <<Len(Head(labels))>> \o Head(labels) \o WireLabels(Tail(labels))

\* a question as a client encodes it
WireQuestion(labels, type, class) ==
    WireLabels(labels) \o PutUint16(type) \o PutUint16(class)

L_test == <<116, 101, 115, 116>>
L_nope == <<110, 111, 112, 101>>
L_TEST == <<84, 69, 83, 84>>
L_kausm == <<107, 97, 117, 115, 109>>
L_in == <<105, 110>>

\* flag words: standard query with RD; standard query with AA, TC, RD, RA and
\* rcode 3; response with RD; inverse query; status; opcode 3; rcode 6;
\* standard query with the reserved bits set; opcode 15 with rcode 15;
\* response with rcode 5
FlagWords == {256, 1923, 33024, 2304, 4096, 6400, 262, 368, 30735, 32773}

\* <<question count, payload>>
Bodies ==
    { <<0, <<>>>>,
      <<1, WireQuestion(<<L_test, L_kausm, L_in>>, TypeA, ClassIN)>>,
      <<1, WireQuestion(<<L_nope, L_kausm, L_in>>, TypeA, ClassIN)>>,
      <<2, WireQuestion(<<L_TEST, L_kausm, L_in>>, TypeA, ClassIN)
           \o WireQuestion(<<L_kausm, L_in>>, TypeSOA, ClassIN)>>,
      <<1, <<4, 116>>>>,
      <<1, WireQuestion(<<L_in>>, 99, ClassIN)>> }

Datagrams ==
    { Hdr(42, f, b[1], 0, 0, 0) \o b[2] : f \in FlagWords, b \in Bodies }
    \cup { Hdr(65535, f, 1, 1, 2, 3)
           \o WireQuestion(<<L_test, L_kausm, L_in>>, TypeA, ClassIN) : f \in {256, 33024} }
    \cup { <<>>, <<0, 42, 1>>, <<0, 42, 1, 0, 0, 1>>, <<0, 42, 25, 0, 0>> }

----------------------------------------------------------------------------
(* The server: Listen hands each datagram to a goroutine of its own *)

Workers == {1, 2}

Crashed == \E w \in Workers : pc[w] = "panic"

NoCall == arg = None /\ ret = None /\ back = None

Init ==
    /\ records = NewDNSServer
    /\ pc = [w \in Workers |-> "idle"]
    /\ input = [w \in Workers |-> <<>>]
    /\ outcome = [w \in Workers |-> None]
    /\ NoCall

\* Listen: conn.ReadFromUDP fills a fresh buffer; go srv.handleUDPPacket
Listen(w, d) ==
    /\ ~Crashed
    /\ pc[w] = "idle"
    /\ pc' = [pc EXCEPT ![w] = "running"]
    /\ input' = [input EXCEPT ![w] = d]
    /\ outcome' = [outcome EXCEPT ![w] = None]
    /\ UNCHANGED <<records, arg, ret, back>>

\* the goroutine of worker w runs handleUDPPacket on its datagram
Handle(w) ==
    /\ ~Crashed
    /\ pc[w] = "running"
    /\ LET o == handleUDPPacket(records, input[w])
       IN  /\ outcome' = [outcome EXCEPT ![w] = o]
           /\ pc' = [pc EXCEPT ![w] = IF o.kind = "panic" THEN "panic" ELSE "done"]
    /\ UNCHANGED <<records, input, arg, ret, back>>

\* the goroutine of worker w has returned
Exit(w) ==
    /\ ~Crashed
    /\ pc[w] = "done"
    /\ pc' = [pc EXCEPT ![w] = "idle"]
    /\ input' = [input EXCEPT ![w] = <<>>]
    /\ outcome' = [outcome EXCEPT ![w] = None]
    /\ UNCHANGED <<records, arg, ret, back>>

Next ==
    \/ \E w \in Workers, d \in Datagrams : Listen(w, d)
    \/ \E w \in Workers : Handle(w)
    \/ \E w \in Workers : Exit(w)

Spec == Init /\ [][Next]_vars

ServerIdle ==
    /\ records = NewDNSServer
    /\ pc = [w \in Workers |-> "idle"]
    /\ input = [w \in Workers |-> <<>>]
    /\ outcome = [w \in Workers |-> None]

Done(w) == pc[w] = "done"

Sent(w) == pc[w] = "done" /\ outcome[w].kind = "sent"

----------------------------------------------------------------------------
(* The codec calls, each on inputs drawn from bounded sets *)

\* n octets c
Rep(c, n) == SubSeq([i \in 1..(n + 1) |-> c], 1, n)

\* the labels joined with "."
RECURSIVE Join(_)
Join(labels) ==
    IF Len(labels) = 1 THEN labels[1]
    ELSE labels[1] \o <<Dot>> \o Join(Tail(labels))

MaxLabelLen == 2
MaxLabels == 2
MaxItems == 2

\* "a" and "z"
Alphabet == {97, 122}

\* labels of 0..MaxLabelLen octets
Labels == UNION {[1..n -> Alphabet] : n \in 0..MaxLabelLen}

\* names as label lists: the short ones, kausm.in, testing.kausm.in, and
\* names with labels of 63 and 64 octets, of 255 and of 256 octets
LabelLists ==
    UNION {[1..k -> Labels] : k \in 1..MaxLabels}
    \cup { <<L_kausm, L_in>>,
           <<<<116, 101, 115, 116, 105, 110, 103>>, L_kausm, L_in>>,
           <<Rep(97, 63)>>,
           <<Rep(97, 64)>>,
           <<<<97>>, Rep(97, 64), <<122>>>>,
           <<Rep(97, 63), Rep(98, 63), Rep(99, 63), Rep(100, 63)>>,
           <<Rep(97, 63), Rep(98, 63), Rep(99, 63), Rep(100, 62), <<101>>>> }

\* buffers for a name of n octets: one octet short, exact, with room to spare;
\* fresh (zero) or holding earlier octets
NameBuffers(n) ==
    {Rep(c, m) : c \in {0, 170}, m \in {n + 1, n + 2, n + 5}}

InitName ==
    /\ ServerIdle
    /\ \E ls \in LabelLists : \E b \in NameBuffers(Len(Join(ls))) :
          arg = [kind |-> "name", labels |-> ls, name |-> Join(ls), buf |-> b]
    /\ ret = None
    /\ back = None

CallEncodeDomainName ==
    /\ arg.kind = "name"
    /\ ret = None
    /\ ret' = EncodeDomainName(arg.buf, arg.name)
    /\ UNCHANGED <<records, pc, input, outcome, arg, back>>

CallDecodeDomainName ==
    /\ arg.kind = "name"
    /\ ret # None
    /\ ret.err = ""
    /\ back = None
    /\ back' = DecodeDomainName(SubSeq(ret.buf, 1, ret.n))
    /\ UNCHANGED <<records, pc, input, outcome, arg, ret>>

NextName == CallEncodeDomainName \/ CallDecodeDomainName

SpecName == InitName /\ [][NextName]_vars

\* headers with every field drawn from its enumeration
Headers ==
    { [ID |-> id, Type |-> t, OpCode |-> op,
       IsAuthoritative |-> aa, IsTruncated |-> tc,
       RecursionDesired |-> rd, RecursionAvailable |-> ra,
       ResponseCode |-> rc,
       QuestionsCount |-> c[1], AnswersCount |-> c[2],
       NameserversCount |-> c[3], AdditionalRecordsCount |-> c[4]] :
      id \in {0, 42, 65535}, t \in BOOLEAN, op \in opCodeMap,
      aa \in BOOLEAN, tc \in BOOLEAN, rd \in BOOLEAN, ra \in BOOLEAN,
      rc \in responseCodeMap,
      c \in {<<0, 0, 0, 0>>, <<1, 0, 0, 0>>, <<258, 772, 1286, 65535>>} }

InitHeader ==
    /\ ServerIdle
    /\ \E h \in Headers : \E b \in {Rep(0, 12), Rep(255, 14)} :
          arg = [kind |-> "header", h |-> h, buf |-> b]
    /\ ret = None
    /\ back = None

CallHeaderEncode ==
    /\ arg.kind = "header"
    /\ ret = None
    /\ ret' = HeaderEncode(arg.h, arg.buf)
    /\ UNCHANGED <<records, pc, input, outcome, arg, back>>

CallReadFrom ==
    /\ arg.kind = "header"
    /\ ret # None
    /\ ~ret.panic
    /\ back = None
    /\ back' = ReadFrom(ZeroHeader, SubSeq(ret.buf, 1, ret.n))
    /\ UNCHANGED <<records, pc, input, outcome, arg, ret>>

NextHeader == CallHeaderEncode \/ CallReadFrom

SpecHeader == InitHeader /\ [][NextHeader]_vars

\* records: each name, type A or SOA, three TTLs, an empty and a 4-octet value
RRInputs ==
    { [Name |-> Join(ls), Type |-> t, Class |-> ClassIN, TTL |-> ttl, Value |-> v] :
      ls \in LabelLists, t \in {TypeA, TypeSOA}, ttl \in {0, 4200, 2147483647},
      v \in {<<>>, <<42, 69, 255, 1>>} }

InitRR ==
    /\ ServerIdle
    /\ \E rr \in RRInputs : \E extra \in {0, 3} :
          arg = [kind |-> "rr", rr |-> rr,
                 buf |-> Rep(0, Len(rr.Name) + 12 + Len(rr.Value) + extra)]
    /\ ret = None
    /\ back = None

CallRREncode ==
    /\ arg.kind = "rr"
    /\ ret = None
    /\ ret' = RREncode(arg.rr, arg.buf)
    /\ UNCHANGED <<records, pc, input, outcome, arg, back>>

NextRR == CallRREncode

SpecRR == InitRR /\ [][NextRR]_vars

\* sequences of at most n elements of S
SeqsUpTo(S, n) == UNION {[1..k -> S] : k \in 0..n}

\* a name of 255 octets: four labels of 63 octets
Name255 == Join(<<Rep(97, 63), Rep(98, 63), Rep(99, 63), Rep(100, 63)>>)

\* a name of 237 octets: behind the header and a question for Name255 its
\* 239 encoded octets end exactly at the end of the 512-octet buffer
Name237 == Join(<<Rep(97, 63), Rep(98, 63), Rep(99, 63), Rep(100, 45)>>)

QuestionPool ==
    { [Name |-> test_kausm_in, Type |-> TypeA, Class |-> ClassIN],
      [Name |-> kausm_in, Type |-> TypeSOA, Class |-> ClassIN],
      [Name |-> Name255, Type |-> TypeA, Class |-> ClassIN],
      [Name |-> Name237, Type |-> TypeA, Class |-> ClassIN] }

RecordPool ==
    { NewDNSServer[1], NewDNSServer[2],
      [Name |-> L_in, Type |-> TypeA, Class |-> ClassIN, TTL |-> 1, Value |-> <<>>],
      [Name |-> Name237, Type |-> TypeA, Class |-> ClassIN, TTL |-> 1,
       Value |-> <<1, 2, 3, 4>>] }

\* headers as handleUDPPacket hands them over, with the request's counts
RespondHeaders ==
    { [setDefaultResponseHeaders(ZeroHeader) EXCEPT !.ID = 42],
      [setDefaultResponseHeaders(ZeroHeader) EXCEPT
          !.ID = 42, !.RecursionDesired = TRUE, !.QuestionsCount = 5,
          !.AnswersCount = 7, !.NameserversCount = 1, !.AdditionalRecordsCount = 9] }

InitRespond ==
    /\ ServerIdle
    /\ \E h \in RespondHeaders, qs \in SeqsUpTo(QuestionPool, MaxItems),
          an \in SeqsUpTo(RecordPool, MaxItems),
          ns \in SeqsUpTo({NewDNSServer[2]}, 1), ad \in SeqsUpTo({NewDNSServer[1]}, 1) :
          arg = [kind |-> "respond", headers |-> h, questions |-> qs, answers |-> an,
                 nameservers |-> ns, additionalRecords |-> ad]
    /\ ret = None
    /\ back = None

CallRespondToUDP ==
    /\ arg.kind = "respond"
    /\ ret = None
    /\ ret' = RespondToUDP(arg.headers, arg.questions, arg.answers,
                           arg.nameservers, arg.additionalRecords)
    /\ UNCHANGED <<records, pc, input, outcome, arg, back>>

NextRespond == CallRespondToUDP

SpecRespond == InitRespond /\ [][NextRespond]_vars

\* the longest record table
MaxTable == 3

\* "notkausm.in"
notkausm_in == <<110, 111, 116>> \o kausm_in

\* "TEST.Kausm.IN"
TEST_Kausm_IN == <<84, 69, 83, 84, 46, 75, 97, 117, 115, 109, 46, 73, 78>>

\* a class other than IN (CH), as a record built by hand could carry
ClassCH == 3

\* records with equal names in different case, the same name with another
\* type and with another class, the apex, and a name outside the zone
TableRecords ==
    { [Name |-> test_kausm_in, Type |-> TypeA, Class |-> ClassIN, TTL |-> 600,
       Value |-> <<1>>],
      [Name |-> TEST_Kausm_IN, Type |-> TypeA, Class |-> ClassIN, TTL |-> 60,
       Value |-> <<2>>],
      [Name |-> test_kausm_in, Type |-> TypeSOA, Class |-> ClassIN, TTL |-> 600,
       Value |-> <<3>>],
      [Name |-> test_kausm_in, Type |-> TypeA, Class |-> ClassCH, TTL |-> 600,
       Value |-> <<4>>],
      [Name |-> kausm_in, Type |-> TypeSOA, Class |-> ClassIN, TTL |-> 600,
       Value |-> <<5>>],
      [Name |-> notkausm_in, Type |-> TypeA, Class |-> ClassIN, TTL |-> 600,
       Value |-> <<6>>] }

\* questions as ReadQuestionFrom builds them: class IN
LookupQuestions ==
    { [Name |-> n, Type |-> t, Class |-> ClassIN] :
      n \in { test_kausm_in, TEST_Kausm_IN, kausm_in, ToLower(kausm_in) \o <<Dot>>,
              <<75, 65, 85, 83, 77, 46, 73, 78>>, notkausm_in,
              <<110, 111, 112, 101, 46>> \o kausm_in, L_in, <<>>,
              kausm_in \o <<46, 99, 111, 109>> },
      t \in {TypeA, TypeSOA} }

InitLookup ==
    /\ records \in SeqsUpTo(TableRecords, MaxTable)
    /\ pc = [w \in Workers |-> "idle"]
    /\ input = [w \in Workers |-> <<>>]
    /\ outcome = [w \in Workers |-> None]
    /\ \E q \in LookupQuestions : arg = [kind |-> "lookup", q |-> q]
    /\ ret = None
    /\ back = None

CallLookupRecords ==
    /\ arg.kind = "lookup"
    /\ ret = None
    /\ ret' = [answer |-> LookupRecords(records, arg.q.Type, arg.q.Class, arg.q.Name)]
    /\ UNCHANGED <<records, pc, input, outcome, arg, back>>

CallGetAnswers ==
    /\ arg.kind = "lookup"
    /\ back = None
    /\ back' = GetAnswers(records, arg.q)
    /\ UNCHANGED <<records, pc, input, outcome, arg, ret>>

NextLookup == CallLookupRecords \/ CallGetAnswers

SpecLookup == InitLookup /\ [][NextLookup]_vars

----------------------------------------------------------------------------
(* Handlers running concurrently: each goroutine in steps of its own.  Here
   input is indexed by receive buffer, arg[w] is the datagram that arrived
   for worker w and ret[w] the header local to its handler. *)

\* a variant in which Listen allocates one receive buffer before its loop
bufferShared(w) == 1

\* the receive buffer of worker w: Listen makes a fresh one in each iteration
bufferOf(w) == w

\* a query, a query for a name without record, a response, a status request
\* with two questions, an unknown opcode, a datagram of three octets
ConcDatagrams ==
    { Hdr(42, 256, 1, 0, 0, 0) \o WireQuestion(<<L_test, L_kausm, L_in>>, TypeA, ClassIN),
      Hdr(7, 256, 1, 0, 0, 0) \o WireQuestion(<<L_nope, L_kausm, L_in>>, TypeA, ClassIN),
      Hdr(65535, 33024, 1, 1, 2, 3)
          \o WireQuestion(<<L_test, L_kausm, L_in>>, TypeA, ClassIN),
      Hdr(9, 4096, 2, 0, 0, 0)
          \o WireQuestion(<<L_TEST, L_kausm, L_in>>, TypeA, ClassIN)
          \o WireQuestion(<<L_kausm, L_in>>, TypeSOA, ClassIN),
      Hdr(42, 6400, 0, 0, 0, 0),
      <<0, 42, 1>> }

InitConc ==
    /\ records = NewDNSServer
    /\ pc = [w \in Workers |-> "idle"]
    /\ input = [b \in Workers |-> <<>>]
    /\ outcome = [w \in Workers |-> None]
    /\ arg = [w \in Workers |-> <<>>]
    /\ ret = [w \in Workers |-> None]
    /\ back = None

\* Listen: a datagram is read into the buffer and a goroutine started on it
ConcListen(w, d) ==
    /\ ~Crashed
    /\ pc[w] = "idle"
    /\ pc' = [pc EXCEPT ![w] = "running"]
    /\ input' = [input EXCEPT ![bufferOf(w)] = d]
    /\ arg' = [arg EXCEPT ![w] = d]
    /\ ret' = [ret EXCEPT ![w] = None]
    /\ outcome' = [outcome EXCEPT ![w] = None]
    /\ UNCHANGED <<records, back>>

\* the handler's first step: headers.ReadFrom(buf), and the return on error
ConcReadHeader(w) ==
    /\ ~Crashed
    /\ pc[w] = "running"
    /\ LET rd == ReadFrom(ZeroHeader, input[bufferOf(w)])
       IN  IF rd.panic \/ rd.err # ""
           THEN /\ outcome' = [outcome EXCEPT
                                  ![w] = afterRead(records, input[bufferOf(w)], rd)]
                /\ pc' = [pc EXCEPT ![w] = IF rd.panic THEN "panic" ELSE "done"]
                /\ ret' = ret
           ELSE /\ ret' = [ret EXCEPT ![w] = rd]
                /\ pc' = [pc EXCEPT ![w] = "read"]
                /\ outcome' = outcome
    /\ UNCHANGED <<records, input, arg, back>>

\* the handler's second step: the response defaults, the branch on type and
\* opcode, the questions read from the buffer, RespondToUDP
ConcRespond(w) ==
    /\ ~Crashed
    /\ pc[w] = "read"
    /\ LET o == afterRead(records, input[bufferOf(w)], ret[w])
       IN  /\ outcome' = [outcome EXCEPT ![w] = o]
           /\ pc' = [pc EXCEPT ![w] = IF o.kind = "panic" THEN "panic" ELSE "done"]
    /\ UNCHANGED <<records, input, arg, ret, back>>

\* the goroutine has returned
ConcExit(w) ==
    /\ ~Crashed
    /\ pc[w] = "done"
    /\ pc' = [pc EXCEPT ![w] = "idle"]
    /\ UNCHANGED <<records, input, outcome, arg, ret, back>>

NextConc ==
    \/ \E w \in Workers, d \in ConcDatagrams : ConcListen(w, d)
    \/ \E w \in Workers : ConcReadHeader(w)
    \/ \E w \in Workers : ConcRespond(w)
    \/ \E w \in Workers : ConcExit(w)

SpecConc == InitConc /\ [][NextConc]_vars

----------------------------------------------------------------------------
(* The wire format as RFC 1035 lays it out, written without the encoders *)

\* a question: name, type code, class code
WireQuestionOf(q) == WireQuestion(Split(q.Name), q.Type, q.Class)

\* a record: name, type, class, TTL, value length and all value octets
WireRecord(rr) ==
    WireLabels(Split(rr.Name)) \o PutUint16(rr.Type) \o PutUint16(rr.Class)
    \o PutUint32(rr.TTL) \o PutUint16(Len(rr.Value)) \o rr.Value

RECURSIVE WireQuestions(_)
WireQuestions(qs) ==
    IF qs = <<>> THEN <<>> ELSE WireQuestionOf(Head(qs)) \o WireQuestions(Tail(qs))

RECURSIVE WireRecords(_)
WireRecords(rrs) ==
    IF rrs = <<>> THEN <<>> ELSE WireRecord(Head(rrs)) \o WireRecords(Tail(rrs))

\* every label has 1 to 63 octets
ValidLabels(labels) == \A i \in 1..Len(labels) : Len(labels[i]) \in 1..63

\* every label has at most 63 octets
ShortLabels(labels) == \A i \in 1..Len(labels) : Len(labels[i]) <= 63

Bit(b) == IF b THEN 1 ELSE 0

\* the flags word at octets 2-3 of a message
FlagsOf(msg) == msg[3] * 256 + msg[4]

\* the 16-bit value at offset off (from 0) of a message
WordAt(msg, off) == msg[off + 1] * 256 + msg[off + 2]

----------------------------------------------------------------------------
(* Requests, read off the octets the worker received *)

\* the header of worker w's datagram decodes: 12 octets, opcode 0..2, rcode 0..5
HeaderDecodes(w) ==
    /\ Len(input[w]) >= 12
    /\ (FlagsOf(input[w]) \div 2048) % 16 <= 2
    /\ FlagsOf(input[w]) % 16 <= 5

\* message type Query and opcode Query: bits 15-11 are all zero
StandardQuery(w) == HeaderDecodes(w) /\ FlagsOf(input[w]) \div 2048 = 0

\* message type Response or an opcode other than Query
Unsupported(w) == HeaderDecodes(w) /\ FlagsOf(input[w]) \div 2048 # 0

\* the handler of worker w has ended, by returning or by panicking
Ended(w) == pc[w] \in {"done", "panic"}

\* the one question of worker w's datagram, as the question decoder reads it
OnlyQuestion(w) == ReadQuestionFrom(From(input[w], 12), InSize - 12)

\* worker w's datagram is a standard query with request rcode NoError and one
\* question, for a name under kausm.in that has no record of its type and class
InZoneNoRecord(w) ==
    /\ StandardQuery(w)
    /\ FlagsOf(input[w]) % 16 = NoError
    /\ WordAt(input[w], 4) = 1
    /\ OnlyQuestion(w).err = ""
    /\ ~OnlyQuestion(w).panic
    /\ HasSuffix(ToLower(OnlyQuestion(w).q.Name), <<Dot>> \o kausm_in)
    /\ Matches(records, OnlyQuestion(w).q.Type, OnlyQuestion(w).q.Class,
               OnlyQuestion(w).q.Name) = {}

----------------------------------------------------------------------------
(* C1 - C3: handleUDPPacket, under Spec *)

\* C1: a datagram whose header decodes with message type Query and opcode
\* Query has its questions decoded and resolved, and is never answered with
\* response code NotImplemented.
C1_StandardQueryIsResolved ==
    \A w \in Workers :
        Sent(w) /\ StandardQuery(w)
        => /\ outcome[w].out[4] % 16 # NotImplemented
           /\ Len(outcome[w].questions) = WordAt(input[w], 4)

\* C1: a standard query for test.kausm.in A IN has been handled and answered
C1_StandardQueryHandled ==
    \E w \in Workers :
        /\ Sent(w)
        /\ StandardQuery(w)
        /\ input[w] = Hdr(42, 256, 1, 0, 0, 0)
                      \o WireQuestion(<<L_test, L_kausm, L_in>>, TypeA, ClassIN)

\* C2: a standard query with request rcode NoError and one question, in the
\* zone and without a record, is answered with response code NameError, the
\* authoritative flag set, question count 1 and answer count 0.
C2_NameErrorInZone ==
    \A w \in Workers :
        Ended(w) /\ InZoneNoRecord(w)
        => /\ outcome[w].kind = "sent"
           /\ FlagsOf(outcome[w].out) % 16 = NameError
           /\ (FlagsOf(outcome[w].out) \div 1024) % 2 = 1
           /\ WordAt(outcome[w].out, 4) = 1
           /\ WordAt(outcome[w].out, 6) = 0

\* C2: the query for nope.kausm.in A IN has been handled
C2_NoRecordQueryHandled ==
    \E w \in Workers :
        /\ Ended(w)
        /\ InZoneNoRecord(w)
        /\ input[w] = Hdr(42, 256, 1, 0, 0, 0)
                      \o WireQuestion(<<L_nope, L_kausm, L_in>>, TypeA, ClassIN)

\* C3: a datagram whose header decodes with message type Response or with an
\* opcode other than Query is answered with exactly 12 octets: a header with
\* response code NotImplemented and the four counts 0, whatever question
\* count and payload the request carried.
C3_UnsupportedIsHeaderOnly ==
    \A w \in Workers :
        Ended(w) /\ Unsupported(w)
        => /\ outcome[w].kind = "sent"
           /\ Len(outcome[w].out) = 12
           /\ FlagsOf(outcome[w].out) % 16 = NotImplemented
           /\ SubSeq(outcome[w].out, 5, 12) = <<0, 0, 0, 0, 0, 0, 0, 0>>

\* C3: a Response-type datagram with question count 1, non-zero record
\* counts and a question after the header has been answered
C3_UnsupportedAnswered ==
    \E w \in Workers :
        /\ Sent(w)
        /\ Unsupported(w)
        /\ FlagsOf(input[w]) \div 32768 = 1
        /\ WordAt(input[w], 4) = 1
        /\ WordAt(input[w], 6) = 1
        /\ Len(input[w]) > 12
        /\ Len(outcome[w].out) = 12

----------------------------------------------------------------------------
(* C4, C5: RespondToUDP, under SpecRespond *)

\* C4: in every datagram RespondToUDP sends, the four header counts are the
\* numbers of questions, answers, authority and additional records encoded,
\* whatever counts the header carried on entry.
C4_CountsAreLengths ==
    (ret # None /\ ret.sent)
    => /\ WordAt(ret.out, 4) = Len(arg.questions)
       /\ WordAt(ret.out, 6) = Len(arg.answers)
       /\ WordAt(ret.out, 8) = Len(arg.nameservers)
       /\ WordAt(ret.out, 10) = Len(arg.additionalRecords)
       /\ ret.headers.QuestionsCount = Len(arg.questions)
       /\ ret.headers.AnswersCount = Len(arg.answers)
       /\ ret.headers.NameserversCount = Len(arg.nameservers)
       /\ ret.headers.AdditionalRecordsCount = Len(arg.additionalRecords)

\* C4: a response with two questions, an answer and an authority record was
\* sent for a header that came in with counts 5, 7, 1, 9
C4_SentWithOtherCounts ==
    /\ ret # None
    /\ ret.sent
    /\ Len(arg.questions) = 2
    /\ Len(arg.answers) = 1
    /\ Len(arg.nameservers) = 1
    /\ Len(arg.additionalRecords) = 0
    /\ arg.headers.QuestionsCount = 5
    /\ arg.headers.AnswersCount = 7

\* C5: the datagram RespondToUDP sends is the used prefix of the buffer, and
\* it is the encoded header, then each question, then each complete record
\* of answers, authority and additional, in order, with all value octets.
C5_DatagramIsComplete ==
    (ret # None /\ ret.sent)
    => /\ ret.out = SubSeq(ret.buf, 1, ret.bytesWritten)
       /\ ret.out = HeaderEncode(ret.headers, Make(12)).buf
                    \o WireQuestions(arg.questions)
                    \o WireRecords(arg.answers \o arg.nameservers
                                   \o arg.additionalRecords)

\* C5: a response with the one answer test.kausm.in A 134.209.148.50 was sent
C5_SentOneAnswer ==
    /\ ret # None
    /\ ret.sent
    /\ arg.questions = <<>>
    /\ arg.answers = <<NewDNSServer[1]>>
    /\ arg.nameservers = <<>>
    /\ arg.additionalRecords = <<>>

----------------------------------------------------------------------------
(* C6: ResourceRecord.Encode, under SpecRR *)

\* C6: for a record whose name has labels of 1 to 63 octets and a buffer that
\* holds the whole record, Encode returns n = (len(name)+2) + 10 + len(value)
\* and buf[:n] is the name, type, class, TTL, value length and value octets.
C6_EncodeCountsValue ==
    (/\ ret # None
     /\ ValidLabels(Split(arg.rr.Name))
     /\ Len(arg.rr.Name) <= 253
     /\ Len(arg.buf) >= Len(WireRecord(arg.rr)))
    => /\ ret.err = ""
       /\ ~ret.panic
       /\ ret.n = (Len(arg.rr.Name) + 2) + 10 + Len(arg.rr.Value)
       /\ SubSeq(ret.buf, 1, Len(WireRecord(arg.rr))) = WireRecord(arg.rr)

\* C6: the record testing.kausm.in A IN 4200 [42 69 255 1] has been encoded
C6_TestRecordEncoded ==
    /\ ret # None
    /\ arg.rr = [Name |-> <<116, 101, 115, 116, 105, 110, 103, 46>> \o kausm_in,
                 Type |-> TypeA, Class |-> ClassIN, TTL |-> 4200,
                 Value |-> <<42, 69, 255, 1>>]
    /\ Len(arg.buf) = 32
    /\ ret.err = ""

----------------------------------------------------------------------------
(* C7, C8: EncodeDomainName and its inverse, under SpecName *)

\* C7 as stated: for any name of labels of 1 to 63 octets and a buffer of at
\* least len(name)+2 octets, EncodeDomainName writes each label behind its
\* length octet, then one zero octet, and returns len(name)+2.
C7_AsStated ==
    (/\ ret # None
     /\ ValidLabels(arg.labels)
     /\ Len(arg.buf) >= Len(arg.name) + 2)
    => /\ ret.err = ""
       /\ ret.n = Len(arg.name) + 2
       /\ SubSeq(ret.buf, 1, ret.n) = WireLabels(arg.labels)

\* C7, amended: the same for any such name of at most 255 octets.
C7_EncodeDomainName ==
    (/\ ret # None
     /\ ValidLabels(arg.labels)
     /\ Len(arg.name) <= 255
     /\ Len(arg.buf) >= Len(arg.name) + 2)
    => /\ ret.err = ""
       /\ ret.n = Len(arg.name) + 2
       /\ SubSeq(ret.buf, 1, ret.n) = WireLabels(arg.labels)

\* C7: "kausm.in" was encoded into a buffer that held other octets before
C7_KausmInEncoded ==
    /\ ret # None
    /\ arg.name = kausm_in
    /\ arg.buf = Rep(170, 13)
    /\ ret.n = 10
    /\ SubSeq(ret.buf, 1, 10) = <<5, 107, 97, 117, 115, 109, 2, 105, 110, 0>>

\* C8 as stated: for every name of at most 255 octets whose labels have at
\* most 63 octets, decoding the output of EncodeDomainName returns the name,
\* and reads as many octets as were written.
C8_AsStated ==
    (/\ back # None
     /\ ShortLabels(arg.labels)
     /\ Len(arg.name) <= 255)
    => /\ back.err = ""
       /\ back.name = arg.name
       /\ back.n = ret.n

\* C8, amended: the same for every name whose labels have 1 to 63 octets.
C8_RoundTrip ==
    (/\ back # None
     /\ ValidLabels(arg.labels)
     /\ Len(arg.name) <= 255)
    => /\ back.err = ""
       /\ back.name = arg.name
       /\ back.n = ret.n

\* C8: a name of four 63-octet labels, 255 octets, was encoded and decoded
C8_LongNameDecoded ==
    /\ back # None
    /\ Len(arg.labels) = 4
    /\ ValidLabels(arg.labels)
    /\ Len(arg.name) = 255
    /\ ret.n = 257
    /\ back.name = arg.name

----------------------------------------------------------------------------
(* C9, C10: DNSHeader.Encode and DNSHeader.ReadFrom, under SpecHeader *)

\* C9: for every header with opcode Query, InverseQuery or Status and
\* response code NoError..Refused, any ID, flags and counts, ReadFrom on the
\* 12 octets Encode produced succeeds and yields a header equal in every field.
C9_HeaderRoundTrip ==
    back # None => (back.err = "" /\ ~back.panic /\ back.h = arg.h)

\* C9: ID 42, Query, recursion desired, one question went through
\* 00 2a 01 00 00 01 00 00 00 00 00 00 and back
C9_QueryHeaderRead ==
    /\ back # None
    /\ SubSeq(ret.buf, 1, 12) = <<0, 42, 1, 0, 0, 1, 0, 0, 0, 0, 0, 0>>
    /\ back.h.ID = 42
    /\ back.h.RecursionDesired
    /\ back.h.QuestionsCount = 1

\* C10: Encode writes exactly 12 octets: the big-endian ID; a flags word with
\* message type at bit 15, opcode in bits 14-11, authoritative at bit 10,
\* truncated at bit 9, recursion-desired at bit 8, recursion-available at
\* bit 7, bits 6-4 zero and the response code in bits 3-0; then the counts
\* of questions, answers, authority and additional, big-endian.
C10_HeaderLayout ==
    ret # None
    => /\ ret.n = 12
       /\ ~ret.panic
       /\ Len(ret.buf) = Len(arg.buf)
       /\ From(ret.buf, 12) = From(arg.buf, 12)
       /\ WordAt(ret.buf, 0) = arg.h.ID
       /\ FlagsOf(ret.buf) \div 32768 = Bit(arg.h.Type = QRResponse)
       /\ (FlagsOf(ret.buf) \div 2048) % 16 = arg.h.OpCode
       /\ (FlagsOf(ret.buf) \div 1024) % 2 = Bit(arg.h.IsAuthoritative)
       /\ (FlagsOf(ret.buf) \div 512) % 2 = Bit(arg.h.IsTruncated)
       /\ (FlagsOf(ret.buf) \div 256) % 2 = Bit(arg.h.RecursionDesired)
       /\ (FlagsOf(ret.buf) \div 128) % 2 = Bit(arg.h.RecursionAvailable)
       /\ (FlagsOf(ret.buf) \div 16) % 8 = 0
       /\ FlagsOf(ret.buf) % 16 = arg.h.ResponseCode
       /\ WordAt(ret.buf, 4) = arg.h.QuestionsCount
       /\ WordAt(ret.buf, 6) = arg.h.AnswersCount
       /\ WordAt(ret.buf, 8) = arg.h.NameserversCount
       /\ WordAt(ret.buf, 10) = arg.h.AdditionalRecordsCount

\* C10: ID 42, Response, InverseQuery, recursion desired, NotImplemented,
\* one question was encoded as 00 2a 89 04 00 01 00 00 00 00 00 00 into a
\* 14-octet buffer that held other octets
C10_ResponseHeaderEncoded ==
    /\ ret # None
    /\ Len(arg.buf) = 14
    /\ arg.h.Type = QRResponse
    /\ arg.h.OpCode = IQueryOp
    /\ SubSeq(ret.buf, 1, 12) = <<0, 42, 137, 4, 0, 1, 0, 0, 0, 0, 0, 0>>

----------------------------------------------------------------------------
(* C11: no datagram makes the handler panic, under Spec *)

\* C11: for every datagram of 0 to 512 octets, handling it ends by sending a
\* response or by dropping the datagram; no handler panics.
C11_NoPanic ==
    \A w \in Workers :
        /\ pc[w] # "panic"
        /\ Done(w) => outcome[w].kind \in {"sent", "dropped"}

\* C11: the handler of the 3-octet datagram 00 2a 01 has ended
C11_ShortDatagramHandled ==
    \E w \in Workers : Ended(w) /\ input[w] = <<0, 42, 1>>

----------------------------------------------------------------------------
(* C12: a response that does not fit the buffer, under SpecRespond *)

\* the octets of the complete response to the arguments of RespondToUDP
ResponseSize ==
    12 + Len(WireQuestions(arg.questions))
       + Len(WireRecords(arg.answers \o arg.nameservers \o arg.additionalRecords))

\* C12: if the questions and records do not all fit in the 512-octet buffer,
\* RespondToUDP returns an encode error and sends no datagram.
C12_NoFitNoSend ==
    (ret # None /\ ResponseSize > OutSize)
    => /\ ret.err # ""
       /\ ~ret.panic
       /\ ~ret.sent

\* C12: a question for a 255-octet name and a question for a 237-octet name,
\* 12 + 261 + 243 = 516 octets in all, went out as a datagram of 512 octets
C12_TwoLongQuestions ==
    /\ ret # None
    /\ Len(arg.questions) = 2
    /\ arg.questions[1].Name = Name255
    /\ arg.questions[2].Name = Name237
    /\ arg.answers = <<>>
    /\ arg.nameservers = <<>>
    /\ arg.additionalRecords = <<>>
    /\ ResponseSize = 516
    /\ ret.sent
    /\ Len(ret.out) = 512

\* C12: two questions for 255-octet names were refused with an encode error
C12_SecondQuestionRefused ==
    /\ ret # None
    /\ Len(arg.questions) = 2
    /\ arg.questions[1].Name = Name255
    /\ arg.questions[2].Name = Name255
    /\ ret.err = "buffer too small"
    /\ ~ret.sent

----------------------------------------------------------------------------
(* C13: the 255-octet limit of EncodeDomainName, under SpecName *)

\* C13: whenever EncodeDomainName succeeds the count it returns is at most
\* 255, and for a name whose encoded form (len(name)+2 octets) exceeds 255
\* it returns an error having written nothing.
C13_EncodedNameLimit ==
    ret # None
    => /\ ret.err = "" => ret.n <= 255
       /\ Len(arg.name) + 2 > 255 => (ret.err # "" /\ ret.buf = arg.buf)

\* C13: the name of four 63-octet labels, 255 octets, was encoded into a
\* buffer of 257 octets
C13_Name255Encoded ==
    /\ ret # None
    /\ arg.name = Name255
    /\ Len(arg.buf) = 257
    /\ ret.err = ""
    /\ ret.n = 257

----------------------------------------------------------------------------
(* C14: headers with an unknown opcode or response code, under Spec *)

\* the flags word of worker w's datagram has an opcode field other than 0, 1,
\* 2 or a response-code field other than 0..5
InvalidCodes(w) ==
    /\ Len(input[w]) >= 4
    /\ \/ (FlagsOf(input[w]) \div 2048) % 16 > 2
       \/ FlagsOf(input[w]) % 16 > 5

\* C14: if the opcode field is not 0, 1 or 2 or the response-code field is
\* not in 0..5, ReadFrom returns an error and the handler drops the datagram
\* without sending; for every other 12-octet header ReadFrom returns no
\* error, whatever the ID, the counts and the reserved bits.
C14_InvalidCodesDropped ==
    \A w \in Workers :
        Ended(w)
        => /\ InvalidCodes(w)
              => /\ ReadFrom(ZeroHeader, input[w]).err # ""
                 /\ outcome[w].kind = "dropped"
                 /\ outcome[w].out = <<>>
           /\ (Len(input[w]) >= 12 /\ ~InvalidCodes(w))
              => /\ ReadFrom(ZeroHeader, input[w]).err = ""
                 /\ ~ReadFrom(ZeroHeader, input[w]).panic
                 /\ outcome[w].kind = "sent"

\* C14: a datagram with response-code field 6 and one with the reserved bits
\* set have both been handled
C14_BothKindsHandled ==
    /\ Done(1)
    /\ Done(2)
    /\ Len(input[1]) > 12
    /\ FlagsOf(input[1]) = 262
    /\ outcome[1].kind = "dropped"
    /\ FlagsOf(input[2]) = 368
    /\ outcome[2].kind = "sent"

----------------------------------------------------------------------------
(* C15: LookupRecords and GetAnswers, under SpecLookup *)

\* an octet with upper-case ASCII letters folded to lower case
Fold(c) == IF c \in 65..90 THEN c + 32 ELSE c

\* two names are equal after lower-casing both
SameName(a, b) == Len(a) = Len(b) /\ \A i \in 1..Len(a) : Fold(a[i]) = Fold(b[i])

\* record i of the table has the type, the class and the name of question q
Answers(i, q) ==
    /\ records[i].Type = q.Type
    /\ records[i].Class = q.Class
    /\ SameName(records[i].Name, q.Name)

\* record i is the first of the table that answers q
FirstAnswer(i, q) == Answers(i, q) /\ \A j \in 1..(i - 1) : ~Answers(j, q)

\* what a lookup of q has to return: the first answering record, or nothing
Expected(q) ==
    IF \E i \in 1..Len(records) : Answers(i, q)
    THEN <<records[CHOOSE i \in 1..Len(records) : FirstAnswer(i, q)]>>
    ELSE <<>>

\* C15: LookupRecords returns the first record in table order with the
\* requested type and class and with the requested name after lower-casing
\* both, and no record when none matches; GetAnswers returns at most one
\* answer, that record, and empty authority and additional lists.
C15_FirstMatch ==
    /\ ret # None => ret.answer = Expected(arg.q)
    /\ back # None
       => /\ Len(back.answers) <= 1
          /\ back.answers = Expected(arg.q)
          /\ back.nameservers = <<>>
          /\ back.additionals = <<>>

\* C15: with two records that answer the question behind one of another
\* class, the lookup returned the first of the two
C15_SecondOfThree ==
    /\ ret # None
    /\ back # None
    /\ Len(records) = 3
    /\ ~Answers(1, arg.q)
    /\ Answers(2, arg.q)
    /\ Answers(3, arg.q)
    /\ records[2] # records[3]
    /\ records[2].Name # arg.q.Name
    /\ ret.answer = <<records[2]>>

----------------------------------------------------------------------------
(* C18: the zone test of GetAnswers, under SpecLookup *)

\* ".kausm.in"
dot_kausm_in == <<Dot>> \o kausm_in

\* the name is the apex kausm.in or ends in .kausm.in, in any case
InZone(name) ==
    \/ SameName(name, kausm_in)
    \/ /\ Len(name) > Len(dot_kausm_in)
       /\ SameName(SubSeq(name, Len(name) - Len(dot_kausm_in) + 1, Len(name)),
                   dot_kausm_in)

\* C18: GetAnswers reports isAuthoritative = TRUE exactly for question names
\* inside the zone, the apex kausm.in or a name ending in .kausm.in compared
\* case-insensitively, and FALSE for every other name, notkausm.in included,
\* whether or not a record matches the question.
C18_AuthoritativeInZone ==
    back # None => (back.isAuthoritative <=> InZone(arg.q.Name))

\* C18: GetAnswers has answered a question for notkausm.in, once with a
\* matching record in the table
C18_NotKausmAsked ==
    /\ back # None
    /\ arg.q.Name = notkausm_in
    /\ Len(back.answers) = 1

----------------------------------------------------------------------------
(* C16: concurrent handlers, under SpecConc *)

----------------------------------------------------------------------------
(* C17: what EncodeDomainName leaves alone, under SpecName *)

\* C17 as stated: when len(buf) < len(name)+2, EncodeDomainName returns 0 and
\* a buffer-too-small error without modifying buf; when that test passes it
\* writes no octet at an index >= len(name)+2, for any name.
C17_AsStated ==
    ret # None
    => /\ Len(ret.buf) = Len(arg.buf)
       /\ Len(arg.buf) < Len(arg.name) + 2
          => (ret.n = 0 /\ ret.err = "buffer too small" /\ ret.buf = arg.buf)
       /\ Len(arg.buf) >= Len(arg.name) + 2
          => From(ret.buf, Len(arg.name) + 2) = From(arg.buf, Len(arg.name) + 2)

\* C17, amended: the same for names of at most 255 octets; for a longer name
\* it returns 0 and a name-too-long error without modifying buf.
C17_Frame ==
    ret # None
    => /\ Len(ret.buf) = Len(arg.buf)
       /\ Len(arg.name) > 255
          => (ret.n = 0 /\ ret.err = "name too long" /\ ret.buf = arg.buf)
       /\ (Len(arg.name) <= 255 /\ Len(arg.buf) < Len(arg.name) + 2)
          => (ret.n = 0 /\ ret.err = "buffer too small" /\ ret.buf = arg.buf)
       /\ Len(arg.buf) >= Len(arg.name) + 2
          => From(ret.buf, Len(arg.name) + 2) = From(arg.buf, Len(arg.name) + 2)

\* C17: a name with an empty label, "a.", was refused a 3-octet buffer that
\* held other octets
C17_SmallBufferRefused ==
    /\ ret # None
    /\ arg.name = <<97, Dot>>
    /\ arg.buf = Rep(170, 3)
    /\ ret.err = "buffer too small"
    /\ ret.buf = arg.buf

----------------------------------------------------------------------------
(* C19: what a response takes from its request, under Spec *)

\* C19: every response sent carries the ID, the opcode and the
\* recursion-desired flag of the request header, has message type Response,
\* and has recursion-available and truncated cleared even when the request
\* had them set.
C19_ResponseEchoesRequest ==
    \A w \in Workers :
        Sent(w)
        => /\ Len(outcome[w].out) >= 12
           /\ WordAt(outcome[w].out, 0) = WordAt(input[w], 0)
           /\ (FlagsOf(outcome[w].out) \div 2048) % 16
                  = (FlagsOf(input[w]) \div 2048) % 16
           /\ (FlagsOf(outcome[w].out) \div 256) % 2 = (FlagsOf(input[w]) \div 256) % 2
           /\ FlagsOf(outcome[w].out) \div 32768 = 1
           /\ (FlagsOf(outcome[w].out) \div 128) % 2 = 0
           /\ (FlagsOf(outcome[w].out) \div 512) % 2 = 0

\* C19: a query with ID 42 and AA, TC, RD and RA set has been answered
C19_FlaggedQueryAnswered ==
    \E w \in Workers :
        /\ Sent(w)
        /\ WordAt(input[w], 0) = 42
        /\ FlagsOf(input[w]) = 1923
        /\ Len(input[w]) > 12

====
